---- MODULE Spec2Model ----
(***************************************************************************)
(* A model of yokel::graph_c<NODE_ID_TYPE, EDGE_DATA> (Graph.hpp).         *)
(*                                                                         *)
(* NODE_ID_TYPE is instantiated with an unsigned integral type, for which  *)
(* std::hash is the value itself; std::size_t is modelled SizeBits wide.   *)
(* EDGE_DATA is instantiated with a two-valued payload type.  A pointer to *)
(* a node is modelled by the key of the node in _node_storage: std::map    *)
(* never moves its elements.                                               *)
(*                                                                         *)
(* For the identifiers 0..MaxId no bit is shifted out of a SizeBits-wide   *)
(* word, so merge_ids gives them the keys it gives them in 64 bits.        *)
(***************************************************************************)
EXTENDS Integers, Sequences, FiniteSets, TLC

\* ------------------------------------------------------------------ bounds
\* Identifiers offered to the calls are 0..MaxId.
MaxId == 2
\* No more than MaxEdges edges are stored (successful add_edge calls).
MaxEdges == 2
\* Longest externally assembled path handed to load_edges.
MaxPathLen == 2
\* No call is made that would leave more than MaxCache paths in the cache.
MaxCache == 1
\* Width of std::size_t in the model.
SizeBits == 4
\* Where the search is followed step by step, the graphs have the nodes
\* 0..k for some k <= MaxTracerId and up to MaxTracerEdges edges.
MaxTracerId == 3
MaxTracerEdges == 4
\* Most trace calls made before optimize_trace is looked at on its own.
MaxTraces == 4

Ids == 0..MaxId
EdgeData == {"p", "q"}
\* What a call without that argument records in last.
NoId == 0 - 1
NoData == "none"

VARIABLES
  node_storage,     \* _node_storage: id -> node_s [id, out, marked]
  edge_storage,     \* _edge_storage: merged key -> payload
  contains_cycles,  \* _contains_cycles
  cache_enabled,    \* _cache_enabled
  average_path_len, \* _average_path_len
  cache,            \* _cache: merged key -> path
  last,             \* the last call: its name, arguments and return value
  reported_cycle,   \* some contains_cycles() call has returned true
  added,            \* <<from, to>> -> the payload of the add_edge that succeeded
  run               \* the trace or contains_cycles call in progress, step by step

vars == <<node_storage, edge_storage, contains_cycles, cache_enabled,
          average_path_len, cache, last, reported_cycle, added, run>>

Range(s) == {s[i] : i \in 1..Len(s)}

\* The list s without its last element (pop_back).
Front(s) == SubSeq(s, 1, Len(s) - 1)

\* An empty std::map.
EmptyMap == [k \in {} |-> 0]

\* m[k] = v of a std::map (insert or overwrite).
MapPut(m, k, v) == [x \in DOMAIN m \cup {k} |-> IF x = k THEN v ELSE m[x]]

\* ------------------------------------------------------------- merge_ids
Modulus == 2 ^ SizeBits

RECURSIVE BitXor(_, _)
BitXor(a, b) ==
  IF a = 0 THEN b
  ELSE IF b = 0 THEN a
  ELSE (((a % 2) + (b % 2)) % 2) + (2 * BitXor(a \div 2, b \div 2))

ShiftLeft1(x) == (x * 2) % Modulus

\* std::hash<NODE_ID_TYPE>{}(x) for an integral NODE_ID_TYPE.
Hash(x) == x % Modulus

\* merge_ids without the shift of the second hash.
merge_ids_unshifted(from, to) == BitXor(Hash(from), Hash(to))

merge_ids(from, to) == BitXor(Hash(from), ShiftLeft1(Hash(to)))

\* ------------------------------------------------------------- node_s
\* node_s(id): the id, no outgoing neighbour, not marked.
node_s(id) == [id |-> id, out |-> <<>>, marked |-> FALSE]

\* node_s(): what _node_storage[x] default-constructs for a missing key.
DefaultNode == [id |-> 0, out |-> <<>>, marked |-> FALSE]

\* load_node(x): non-null iff x is a key of _node_storage.
load_node(ns, x) == x \in DOMAIN ns

\* ------------------------------------------------------------- find
\* The selection loop with <= in place of <: the last traversed path of the
\* smallest size.
LastSmallestIdx(tp) ==
  CHOOSE i \in 1..Len(tp) :
    /\ \A j \in 1..Len(tp) : Len(tp[i]) <= Len(tp[j])
    /\ \A j \in (i + 1)..Len(tp) : Len(tp[j]) > Len(tp[i])

\* The index the selection loop (lines 307-314) ends with: the first
\* traversed path of the smallest size.
SmallestIdx(tp) ==
  CHOOSE i \in 1..Len(tp) :
    /\ \A j \in 1..Len(tp) : Len(tp[i]) <= Len(tp[j])
    /\ \A j \in 1..(i - 1) : Len(tp[j]) > Len(tp[i])

\* The loop body's trailing loop (lines 293-296): every node of current_path
\* is unmarked.
Unmark(ns, path) ==
  [n \in DOMAIN ns |->
     IF n \in Range(path) THEN [ns[n] EXCEPT !.marked = FALSE] ELSE ns[n]]

RECURSIVE find(_, _, _, _), scan(_, _, _, _, _)

\* The loop over node.out (lines 282-298), from its i-th neighbour on.
scan(ns, from, to, i, traversed_path) ==
  IF i > Len(ns[from].out)
  THEN [ns |-> ns, traversed_path |-> traversed_path]
  ELSE LET r == find(ns, ns[from].out[i], to, <<>>)
       IN scan(Unmark(r.ns, r.path), from, to, i + 1,
               IF r.found THEN Append(traversed_path, r.path)
                          ELSE traversed_path)

\* find(from, to, path, reservation); the reservation only pre-sizes vectors.
find(ns, from, to, path) ==
  LET ns1 == IF from \in DOMAIN ns THEN ns ELSE MapPut(ns, from, DefaultNode)
      node == ns1[from]
  IN IF node.marked
     THEN [found |-> FALSE, path |-> path, ns |-> ns1]
     ELSE IF node.id = to
     THEN [found |-> TRUE, path |-> Append(path, from), ns |-> ns1]
     ELSE LET s == scan([ns1 EXCEPT ![from].marked = TRUE], from, to, 1, <<>>)
              ns3 == [s.ns EXCEPT ![from].marked = FALSE]
          IN IF s.traversed_path = <<>>
             THEN [found |-> FALSE, path |-> path, ns |-> ns3]
             ELSE [found |-> TRUE,
                   path |-> Append(path, from)
                              \o s.traversed_path[SmallestIdx(s.traversed_path)],
                   ns |-> ns3]

\* ------------------------------------------------------------- trace
\* trace looking into the cache before it checks that both nodes exist.
trace_cache_first(ns, ch, from, to) ==
  IF cache_enabled /\ merge_ids(from, to) \in DOMAIN ch
  THEN [has |-> TRUE, path |-> ch[merge_ids(from, to)], ns |-> ns, cache |-> ch]
  ELSE IF ~load_node(ns, to) \/ ~load_node(ns, from)
  THEN [has |-> FALSE, path |-> <<>>, ns |-> ns, cache |-> ch]
  ELSE LET r == find(ns, from, to, <<>>)
       IN IF ~r.found
          THEN [has |-> FALSE, path |-> <<>>, ns |-> r.ns, cache |-> ch]
          ELSE [has |-> TRUE, path |-> r.path, ns |-> r.ns,
                cache |-> IF cache_enabled
                          THEN MapPut(ch, merge_ids(from, to), r.path)
                          ELSE ch]

\* trace without the load_node check of from.
trace_unchecked_from(ns, ch, from, to) ==
  IF ~load_node(ns, to)
  THEN [has |-> FALSE, path |-> <<>>, ns |-> ns, cache |-> ch]
  ELSE IF cache_enabled /\ merge_ids(from, to) \in DOMAIN ch
  THEN [has |-> TRUE, path |-> ch[merge_ids(from, to)], ns |-> ns, cache |-> ch]
  ELSE LET r == find(ns, from, to, <<>>)
       IN IF ~r.found
          THEN [has |-> FALSE, path |-> <<>>, ns |-> r.ns, cache |-> ch]
          ELSE [has |-> TRUE, path |-> r.path, ns |-> r.ns,
                cache |-> IF cache_enabled
                          THEN MapPut(ch, merge_ids(from, to), r.path)
                          ELSE ch]

\* trace(from, to) run on node storage ns and cache ch: the optional's
\* has_value and value, and the node storage and cache it leaves.
trace(ns, ch, from, to) ==
  IF ~load_node(ns, to) \/ ~load_node(ns, from)
  THEN [has |-> FALSE, path |-> <<>>, ns |-> ns, cache |-> ch]
  ELSE IF cache_enabled /\ merge_ids(from, to) \in DOMAIN ch
  THEN [has |-> TRUE, path |-> ch[merge_ids(from, to)], ns |-> ns, cache |-> ch]
  ELSE LET r == find(ns, from, to, <<>>)
       IN IF ~r.found
          THEN [has |-> FALSE, path |-> <<>>, ns |-> r.ns, cache |-> ch]
          ELSE [has |-> TRUE, path |-> r.path, ns |-> r.ns,
                cache |-> IF cache_enabled
                          THEN MapPut(ch, merge_ids(from, to), r.path)
                          ELSE ch]

\* ------------------------------------------------------------- load_edges
RECURSIVE load_edges_swapped(_, _, _, _)
\* The loop of load_edges looking each pair up as (path[i + 1], path[i]).
load_edges_swapped(es, path, i, result) ==
  IF i > Len(path) - 1
  THEN [has |-> TRUE, edges |-> result]
  ELSE IF merge_ids(path[i + 1], path[i]) \notin DOMAIN es
  THEN [has |-> FALSE, edges |-> <<>>]
  ELSE load_edges_swapped(es, path, i + 1,
                          Append(result, es[merge_ids(path[i + 1], path[i])]))

RECURSIVE load_edges_from(_, _, _, _)
\* The loop of load_edges from index i on, with the payloads collected so far.
load_edges_from(es, path, i, result) ==
  IF i > Len(path) - 1
  THEN [has |-> TRUE, edges |-> result]
  ELSE IF merge_ids(path[i], path[i + 1]) \notin DOMAIN es
  THEN [has |-> FALSE, edges |-> <<>>]
  ELSE load_edges_from(es, path, i + 1,
                       Append(result, es[merge_ids(path[i], path[i + 1])]))

load_edges(es, path) ==
  IF Len(path) < 2
  THEN [has |-> FALSE, edges |-> <<>>]
  ELSE load_edges_from(es, path, 1, <<>>)

\* ------------------------------------------------------------- contains_cycles
RECURSIVE EdgePairsFrom(_, _)
\* The (id, neighbour) pairs the two nested loops of contains_cycles visit,
\* in their order: std::map iterates its keys ascending, node.out in
\* insertion order.
EdgePairsFrom(ns, id) ==
  IF \A k \in DOMAIN ns : k < id THEN <<>>
  ELSE (IF id \in DOMAIN ns
        THEN [i \in 1..Len(ns[id].out) |-> <<id, ns[id].out[i]>>]
        ELSE <<>>) \o EdgePairsFrom(ns, id + 1)

RECURSIVE cycle_scan(_, _, _, _)
cycle_scan(ns, ch, pairs, i) ==
  IF i > Len(pairs)
  THEN [found |-> FALSE, ns |-> ns, cache |-> ch]
  ELSE LET r == trace(ns, ch, pairs[i][2], pairs[i][1])
       IN IF r.has
          THEN [found |-> TRUE, ns |-> r.ns, cache |-> r.cache]
          ELSE cycle_scan(r.ns, r.cache, pairs, i + 1)

\* ------------------------------------------------------------- calls
\* The source_s of a call that takes none.
NoSource == [nodes |-> <<>>, edges |-> <<>>]

\* No trace and no contains_cycles call is in progress.
NoRun == [op |-> "none"]

Call(op, from, to, data, path, ok, edges) ==
  [op |-> op, from |-> from, to |-> to, data |-> data, path |-> path,
   ok |-> ok, edges |-> edges, source |-> NoSource, key |-> NoId]

Init ==
  /\ node_storage = EmptyMap
  /\ edge_storage = EmptyMap
  /\ contains_cycles = FALSE
  /\ cache_enabled \in BOOLEAN
  /\ average_path_len = 0
  /\ cache = EmptyMap
  /\ last = Call("graph_c", NoId, NoId, NoData, <<>>, TRUE, <<>>)
  /\ reported_cycle = FALSE
  /\ added = EmptyMap
  /\ run = NoRun

\* add_node(id) returns true.
AddNodeOk(id) == ~load_node(node_storage, id)

\* add_node without its _cache.clear().
AddNodeKeepsCache(id) ==
  /\ last' = Call("add_node", id, NoId, NoData, <<>>, AddNodeOk(id), <<>>)
  /\ IF AddNodeOk(id)
     THEN /\ node_storage' = MapPut(node_storage, id, node_s(id))
          /\ contains_cycles' = FALSE
          /\ UNCHANGED <<edge_storage, cache_enabled, average_path_len, cache,
                          reported_cycle, added, run>>
     ELSE UNCHANGED <<node_storage, edge_storage, contains_cycles,
                      cache_enabled, average_path_len, cache, reported_cycle,
                      added, run>>

AddNode(id) ==
  /\ last' = Call("add_node", id, NoId, NoData, <<>>, AddNodeOk(id), <<>>)
  /\ IF AddNodeOk(id)
     THEN /\ cache' = EmptyMap
          /\ node_storage' = MapPut(node_storage, id, node_s(id))
          /\ contains_cycles' = FALSE
          /\ UNCHANGED <<edge_storage, cache_enabled, average_path_len,
                          reported_cycle, added, run>>
     ELSE UNCHANGED <<node_storage, edge_storage, contains_cycles,
                      cache_enabled, average_path_len, cache, reported_cycle,
                      added, run>>

\* add_edge(from, to, edge_data) returns true.
AddEdgeOk(from, to) ==
  /\ load_node(node_storage, to)
  /\ load_node(node_storage, from)
  /\ merge_ids(from, to) \notin DOMAIN edge_storage

\* add_edge clearing the cache before it validates its arguments.
AddEdgeClearsFirst(from, to, edge_data) ==
  /\ AddEdgeOk(from, to) => Cardinality(DOMAIN edge_storage) < MaxEdges
  /\ last' = Call("add_edge", from, to, edge_data, <<>>, AddEdgeOk(from, to), <<>>)
  /\ cache' = EmptyMap
  /\ IF AddEdgeOk(from, to)
     THEN /\ node_storage' =
               [node_storage EXCEPT ![from].out = Append(@, to)]
          /\ edge_storage' = MapPut(edge_storage, merge_ids(from, to), edge_data)
          /\ contains_cycles' = FALSE
          /\ added' = MapPut(added, <<from, to>>, edge_data)
          /\ UNCHANGED <<cache_enabled, average_path_len, reported_cycle, run>>
     ELSE UNCHANGED <<node_storage, edge_storage, contains_cycles,
                      cache_enabled, average_path_len, reported_cycle, added, run>>

AddEdge(from, to, edge_data) ==
  /\ AddEdgeOk(from, to) => Cardinality(DOMAIN edge_storage) < MaxEdges
  /\ last' = Call("add_edge", from, to, edge_data, <<>>, AddEdgeOk(from, to), <<>>)
  /\ IF AddEdgeOk(from, to)
     THEN /\ cache' = EmptyMap
          /\ node_storage' =
               [node_storage EXCEPT ![from].out = Append(@, to)]
          /\ edge_storage' = MapPut(edge_storage, merge_ids(from, to), edge_data)
          /\ contains_cycles' = FALSE
          /\ added' = MapPut(added, <<from, to>>, edge_data)
          /\ UNCHANGED <<cache_enabled, average_path_len, reported_cycle, run>>
     ELSE UNCHANGED <<node_storage, edge_storage, contains_cycles,
                      cache_enabled, average_path_len, cache, reported_cycle,
                      added, run>>

\* ------------------------------------------------------------- build_from
\* What add_node and add_edge read and write, as one value.
Graph == [ns |-> node_storage, es |-> edge_storage, cache |-> cache,
          cc |-> contains_cycles, added |-> added]

\* add_node(id) run on the graph g: its return value and the graph it leaves.
add_node(g, id) ==
  IF load_node(g.ns, id)
  THEN [ok |-> FALSE, g |-> g]
  ELSE [ok |-> TRUE,
        g |-> [g EXCEPT !.cache = EmptyMap,
                        !.ns = MapPut(g.ns, id, node_s(id)),
                        !.cc = FALSE]]

\* add_edge(from, to, edge_data) run on the graph g.
add_edge(g, from, to, edge_data) ==
  IF \/ ~load_node(g.ns, to) \/ ~load_node(g.ns, from)
     \/ merge_ids(from, to) \in DOMAIN g.es
  THEN [ok |-> FALSE, g |-> g]
  ELSE [ok |-> TRUE,
        g |-> [g EXCEPT !.cache = EmptyMap,
                        !.ns = [g.ns EXCEPT ![from].out = Append(@, to)],
                        !.es = MapPut(g.es, merge_ids(from, to), edge_data),
                        !.cc = FALSE,
                        !.added = MapPut(g.added, <<from, to>>, edge_data)]]

RECURSIVE add_nodes_skipping(_, _, _)
\* The first loop of build_from going on after an add_node that failed.
add_nodes_skipping(g, nodes, i) ==
  IF i > Len(nodes)
  THEN [ok |-> TRUE, g |-> g]
  ELSE LET r == add_node(g, nodes[i])
           s == add_nodes_skipping(r.g, nodes, i + 1)
       IN [ok |-> r.ok /\ s.ok, g |-> s.g]

RECURSIVE add_nodes(_, _, _), add_edges(_, _, _)
\* The first loop of build_from (lines 88-92), from the i-th node on.
add_nodes(g, nodes, i) ==
  IF i > Len(nodes)
  THEN [ok |-> TRUE, g |-> g]
  ELSE LET r == add_node(g, nodes[i])
       IN IF ~r.ok THEN r ELSE add_nodes(r.g, nodes, i + 1)

\* The second loop of build_from (lines 94-98), from the i-th edge on.
add_edges(g, edges, i) ==
  IF i > Len(edges)
  THEN [ok |-> TRUE, g |-> g]
  ELSE LET r == add_edge(g, edges[i].from, edges[i].to, edges[i].data)
       IN IF ~r.ok THEN r ELSE add_edges(r.g, edges, i + 1)

build_from(g, source) ==
  LET n == add_nodes(g, source.nodes, 1)
  IN IF ~n.ok THEN n ELSE add_edges(n.g, source.edges, 1)

\* edge_s: the three fields of an element of source_s::edges.
edge_s(from, to, data) == [from |-> from, to |-> to, data |-> data]

\* The node lists and edge lists build_from is called with: lists that insert
\* everything on a new graph, a node list with a repeated node, an edge list
\* with a repeated edge in the middle, an edge list naming a node of another
\* node list.
NodeLists == {<<>>, <<0, 1>>, <<0, 0, 1>>, <<1, 2>>}

EdgeLists ==
  {<<>>,
   <<edge_s(0, 1, "p"), edge_s(1, 0, "q")>>,
   <<edge_s(1, 2, "p"), edge_s(1, 2, "q"), edge_s(2, 1, "p")>>,
   <<edge_s(2, 0, "q"), edge_s(2, 2, "p")>>}

Sources == {[nodes |-> n, edges |-> e] : n \in NodeLists, e \in EdgeLists}

BuildFrom(source) ==
  LET r == build_from(Graph, source)
  IN /\ Cardinality(DOMAIN r.g.es) <= MaxEdges
     /\ node_storage' = r.g.ns
     /\ edge_storage' = r.g.es
     /\ cache' = r.g.cache
     /\ contains_cycles' = r.g.cc
     /\ added' = r.g.added
     /\ last' = [Call("build_from", NoId, NoId, NoData, <<>>, r.ok, <<>>)
                   EXCEPT !.source = source]
     /\ UNCHANGED <<cache_enabled, average_path_len, reported_cycle, run>>

ClearCache ==
  /\ cache' = EmptyMap
  /\ last' = Call("clear_cache", NoId, NoId, NoData, <<>>, TRUE, <<>>)
  /\ UNCHANGED <<node_storage, edge_storage, contains_cycles, cache_enabled,
                 average_path_len, reported_cycle, added, run>>

ToggleCache(is_enabled) ==
  /\ cache_enabled' = is_enabled
  /\ cache' = EmptyMap
  /\ last' = Call("toggle_cache", NoId, NoId, NoData, <<>>, is_enabled, <<>>)
  /\ UNCHANGED <<node_storage, edge_storage, contains_cycles, average_path_len,
                 reported_cycle, added, run>>

RECURSIVE SumLen(_, _)
\* total_paths_len over the cache entries with the keys in ks.
SumLen(ch, ks) ==
  IF ks = {} THEN 0
  ELSE LET k == CHOOSE x \in ks : TRUE
       IN Len(ch[k]) + SumLen(ch, ks \ {k})

\* optimize_trace() returns true.
OptimizeTraceOk == cache_enabled /\ DOMAIN cache # {}

\* std::ceil(total_paths_len / _cache.size()): the division is between two
\* std::size_t and truncates before std::ceil sees it.
AveragePathLen(ch) == SumLen(ch, DOMAIN ch) \div Cardinality(DOMAIN ch)

\* optimize_trace zeroing _average_path_len when it returns false.
OptimizeTraceResetsHint ==
  /\ last' = Call("optimize_trace", NoId, NoId, NoData, <<>>, OptimizeTraceOk, <<>>)
  /\ average_path_len' = IF OptimizeTraceOk THEN AveragePathLen(cache) ELSE 0
  /\ UNCHANGED <<node_storage, edge_storage, contains_cycles, cache_enabled,
                 cache, reported_cycle, added, run>>

OptimizeTrace ==
  /\ last' = Call("optimize_trace", NoId, NoId, NoData, <<>>, OptimizeTraceOk, <<>>)
  /\ average_path_len' =
       IF OptimizeTraceOk THEN AveragePathLen(cache) ELSE average_path_len
  /\ UNCHANGED <<node_storage, edge_storage, contains_cycles, cache_enabled,
                 cache, reported_cycle, added, run>>

Trace(from, to) ==
  LET r == trace(node_storage, cache, from, to)
  IN /\ Cardinality(DOMAIN r.cache) <= MaxCache
     /\ node_storage' = r.ns
     /\ cache' = r.cache
     /\ last' = Call("trace", from, to, NoData, r.path, r.has, <<>>)
     /\ UNCHANGED <<edge_storage, contains_cycles, cache_enabled,
                    average_path_len, reported_cycle, added, run>>

\* The paths a caller can hand to load_edges: node pointers of this graph,
\* assembled by hand or returned by the trace just made.
CallerPaths ==
  UNION {[1..n -> DOMAIN node_storage] : n \in 0..MaxPathLen}
    \cup (IF last.op = "trace" /\ last.ok THEN {last.path} ELSE {})

LoadEdges(path) ==
  LET r == load_edges(edge_storage, path)
  IN /\ last' = Call("load_edges", NoId, NoId, NoData, path, r.has, r.edges)
     /\ UNCHANGED <<node_storage, edge_storage, contains_cycles, cache_enabled,
                    average_path_len, cache, reported_cycle, added, run>>

ContainsCycles ==
  LET r == IF contains_cycles
           THEN [found |-> TRUE, ns |-> node_storage, cache |-> cache]
           ELSE cycle_scan(node_storage, cache, EdgePairsFrom(node_storage, 0), 1)
  IN /\ Cardinality(DOMAIN r.cache) <= MaxCache
     /\ contains_cycles' = r.found
     /\ node_storage' = r.ns
     /\ cache' = r.cache
     /\ last' = Call("contains_cycles", NoId, NoId, NoData, <<>>, r.found, <<>>)
     /\ reported_cycle' = (reported_cycle \/ r.found)
     /\ UNCHANGED <<edge_storage, cache_enabled, average_path_len, added, run>>

Next ==
  \/ \E id \in Ids : AddNode(id)
  \/ \E from \in Ids, to \in Ids, d \in EdgeData : AddEdge(from, to, d)
  \/ ClearCache
  \/ \E b \in BOOLEAN : ToggleCache(b)
  \/ OptimizeTrace
  \/ \E from \in Ids, to \in Ids : Trace(from, to)
  \/ \E path \in CallerPaths : LoadEdges(path)
  \/ ContainsCycles

Spec == Init /\ [][Next]_vars

\* Every value of a SizeBits-wide unsigned NODE_ID_TYPE.
Words == 0..(Modulus - 1)

\* One evaluation of merge_ids(from, to), recorded with the key it returns.
MergeIds(from, to) ==
  /\ last' = [Call("merge_ids", from, to, NoData, <<>>, TRUE, <<>>)
                EXCEPT !.key = merge_ids(from, to)]
  /\ UNCHANGED <<node_storage, edge_storage, contains_cycles, cache_enabled,
                 average_path_len, cache, reported_cycle, added, run>>

NextKey == \E from \in Words, to \in Words : MergeIds(from, to)

\* merge_ids evaluated on every pair of identifiers, in any order.
SpecKey == Init /\ [][NextKey]_vars

\* The graph 0 -> 1 -> 2 as build_from makes it on a new graph_c.
NewGraph == [ns |-> EmptyMap, es |-> EmptyMap, cache |-> EmptyMap,
             cc |-> FALSE, added |-> EmptyMap]

ChainSource == [nodes |-> <<0, 1, 2>>,
                edges |-> <<edge_s(0, 1, "p"), edge_s(1, 2, "q")>>]

Chain == build_from(NewGraph, ChainSource).g

RECURSIVE TraceAll(_, _, _)
\* The cache after trace was called on the pairs i.. of the list pairs.
TraceAll(ch, pairs, i) ==
  IF i > Len(pairs) THEN ch
  ELSE TraceAll(trace(Chain.ns, ch, pairs[i][1], pairs[i][2]).cache, pairs, i + 1)

\* A caller has built the chain and made up to MaxTraces trace calls on it,
\* caching enabled.
InitOptimize ==
  /\ node_storage = Chain.ns
  /\ edge_storage = Chain.es
  /\ contains_cycles = FALSE
  /\ cache_enabled = TRUE
  /\ average_path_len = 0
  /\ \E n \in 0..MaxTraces : \E pairs \in [1..n -> Ids \X Ids] :
       cache = TraceAll(EmptyMap, pairs, 1)
  /\ last = Call("graph_c", NoId, NoId, NoData, <<>>, TRUE, <<>>)
  /\ reported_cycle = FALSE
  /\ added = Chain.added
  /\ run = NoRun

NextOptimize ==
  \/ OptimizeTrace
  \/ ClearCache
  \/ \E b \in BOOLEAN : ToggleCache(b)

\* optimize_trace on caches of several paths.
SpecOptimize == InitOptimize /\ [][NextOptimize]_vars

\* ------------------------------------------------------------- find, stepwise
\* One trace or contains_cycles call followed through the invocations of
\* find: run.stack holds one frame per active invocation (the outermost
\* first), run.ret what the invocation that has just returned handed back.
Frame(node) ==
  [node |-> node, path |-> <<>>, pc |-> "enter", i |-> 1,
   traversed_path |-> <<>>]

NoRet == [returned |-> FALSE, found |-> FALSE, path |-> <<>>]

Ret(found, path) == [returned |-> TRUE, found |-> found, path |-> path]

Running == run.op # "none"

Top == run.stack[Len(run.stack)]

SetTop(stack, frame) == [stack EXCEPT ![Len(stack)] = frame]

\* trace(from, to) up to its call of find (lines 165-181).
BeginTrace(from, to) ==
  /\ ~Running
  /\ last.op = "graph_c"
  /\ IF ~load_node(node_storage, to) \/ ~load_node(node_storage, from)
     THEN /\ last' = Call("trace", from, to, NoData, <<>>, FALSE, <<>>)
          /\ run' = NoRun
     ELSE IF cache_enabled /\ merge_ids(from, to) \in DOMAIN cache
     THEN /\ last' = Call("trace", from, to, NoData,
                          cache[merge_ids(from, to)], TRUE, <<>>)
          /\ run' = NoRun
     ELSE /\ run' = [op |-> "trace", from |-> from, to |-> to,
                     pairs |-> <<>>, idx |-> 0,
                     stack |-> <<Frame(from)>>, ret |-> NoRet]
          /\ last' = last
  /\ UNCHANGED <<node_storage, edge_storage, contains_cycles, cache_enabled,
                 average_path_len, cache, reported_cycle, added>>

\* contains_cycles() up to its loops (line 212).
BeginContainsCycles ==
  /\ ~Running
  /\ last.op = "graph_c"
  /\ IF contains_cycles
     THEN /\ last' = Call("contains_cycles", NoId, NoId, NoData, <<>>, TRUE, <<>>)
          /\ reported_cycle' = TRUE
          /\ run' = NoRun
     ELSE /\ run' = [op |-> "contains_cycles", from |-> NoId, to |-> NoId,
                     pairs |-> EdgePairsFrom(node_storage, 0), idx |-> 1,
                     stack |-> <<>>, ret |-> NoRet]
          /\ UNCHANGED <<last, reported_cycle>>
  /\ UNCHANGED <<node_storage, edge_storage, contains_cycles, cache_enabled,
                 average_path_len, cache, added>>

\* The loops of contains_cycles at their next (id, neighbor) pair: the call
\* trace(neighbor->id, id) up to its call of find, or the return after the
\* last pair (lines 213-222, 165-181).
NextPair ==
  /\ run.op = "contains_cycles" /\ run.stack = <<>> /\ ~run.ret.returned
  /\ IF run.idx > Len(run.pairs)
     THEN /\ last' = Call("contains_cycles", NoId, NoId, NoData, <<>>,
                          contains_cycles, <<>>)
          /\ reported_cycle' = (reported_cycle \/ contains_cycles)
          /\ run' = NoRun
          /\ UNCHANGED contains_cycles
     ELSE LET from == run.pairs[run.idx][2]
              to == run.pairs[run.idx][1]
          IN IF ~load_node(node_storage, to) \/ ~load_node(node_storage, from)
             THEN /\ run' = [run EXCEPT !.idx = @ + 1]
                  /\ UNCHANGED <<last, reported_cycle, contains_cycles>>
             ELSE IF cache_enabled /\ merge_ids(from, to) \in DOMAIN cache
             THEN /\ contains_cycles' = TRUE
                  /\ reported_cycle' = TRUE
                  /\ last' = Call("contains_cycles", NoId, NoId, NoData, <<>>,
                                  TRUE, <<>>)
                  /\ run' = NoRun
             ELSE /\ run' = [run EXCEPT !.from = from, !.to = to,
                                        !.stack = <<Frame(from)>>]
                  /\ UNCHANGED <<last, reported_cycle, contains_cycles>>
  /\ UNCHANGED <<node_storage, edge_storage, cache_enabled, average_path_len,
                 cache, added>>

\* An invocation of find from its first statement to the marking of its
\* node (lines 266-280).
\* An invocation of find without the check of node.marked.
FindEnterRevisits ==
  /\ Running /\ run.stack # <<>> /\ Top.pc = "enter"
  /\ LET ns1 == IF Top.node \in DOMAIN node_storage THEN node_storage
                ELSE MapPut(node_storage, Top.node, DefaultNode)
         node == ns1[Top.node]
     IN IF node.id = run.to
        THEN /\ node_storage' = ns1
             /\ run' = [run EXCEPT !.stack = Front(@),
                                   !.ret = Ret(TRUE, Append(Top.path, Top.node))]
        ELSE /\ node_storage' = [ns1 EXCEPT ![Top.node].marked = TRUE]
             /\ run' = [run EXCEPT !.stack =
                          SetTop(@, [Top EXCEPT !.path = Append(@, Top.node),
                                                !.pc = "loop"])]
  /\ UNCHANGED <<edge_storage, contains_cycles, cache_enabled,
                 average_path_len, cache, last, reported_cycle, added>>

FindEnter ==
  /\ Running /\ run.stack # <<>> /\ Top.pc = "enter"
  /\ LET ns1 == IF Top.node \in DOMAIN node_storage THEN node_storage
                ELSE MapPut(node_storage, Top.node, DefaultNode)
         node == ns1[Top.node]
     IN IF node.marked
        THEN /\ node_storage' = ns1
             /\ run' = [run EXCEPT !.stack = Front(@),
                                   !.ret = Ret(FALSE, Top.path)]
        ELSE IF node.id = run.to
        THEN /\ node_storage' = ns1
             /\ run' = [run EXCEPT !.stack = Front(@),
                                   !.ret = Ret(TRUE, Append(Top.path, Top.node))]
        ELSE /\ node_storage' = [ns1 EXCEPT ![Top.node].marked = TRUE]
             /\ run' = [run EXCEPT !.stack =
                          SetTop(@, [Top EXCEPT !.path = Append(@, Top.node),
                                                !.pc = "loop"])]
  /\ UNCHANGED <<edge_storage, contains_cycles, cache_enabled,
                 average_path_len, cache, last, reported_cycle, added>>

\* The loop over node.out calls find on its next neighbour (lines 282-287).
FindCall ==
  /\ Running /\ run.stack # <<>> /\ Top.pc = "loop"
  /\ Top.i <= Len(node_storage[Top.node].out)
  /\ run' = [run EXCEPT !.stack =
               Append(SetTop(@, [Top EXCEPT !.pc = "wait"]),
                      Frame(node_storage[Top.node].out[Top.i]))]
  /\ UNCHANGED <<node_storage, edge_storage, contains_cycles, cache_enabled,
                 average_path_len, cache, last, reported_cycle, added>>

\* The rest of the loop body once that call has returned: the sub-path is
\* kept if there is one, its nodes are unmarked (lines 287-297).
FindReturned ==
  /\ Running /\ run.stack # <<>> /\ Top.pc = "wait" /\ run.ret.returned
  /\ node_storage' = Unmark(node_storage, run.ret.path)
  /\ run' = [run EXCEPT
               !.stack = SetTop(@, [Top EXCEPT
                            !.pc = "loop",
                            !.i = @ + 1,
                            !.traversed_path =
                               IF run.ret.found THEN Append(@, run.ret.path)
                                                ELSE @]),
               !.ret = NoRet]
  /\ UNCHANGED <<edge_storage, contains_cycles, cache_enabled,
                 average_path_len, cache, last, reported_cycle, added>>

\* find after its loop without node.marked = false.
FindExitKeepsMark ==
  /\ Running /\ run.stack # <<>> /\ Top.pc = "loop"
  /\ Top.i > Len(node_storage[Top.node].out)
  /\ run' = [run EXCEPT
               !.stack = Front(@),
               !.ret = IF Top.traversed_path = <<>>
                       THEN Ret(FALSE, Front(Top.path))
                       ELSE Ret(TRUE, Top.path \o
                              Top.traversed_path[SmallestIdx(Top.traversed_path)])]
  /\ UNCHANGED <<node_storage, edge_storage, contains_cycles, cache_enabled,
                 average_path_len, cache, last, reported_cycle, added>>

\* find after its loop: the node is unmarked, the smallest sub-path chosen,
\* the invocation returns (lines 300-320).
FindExit ==
  /\ Running /\ run.stack # <<>> /\ Top.pc = "loop"
  /\ Top.i > Len(node_storage[Top.node].out)
  /\ node_storage' = [node_storage EXCEPT ![Top.node].marked = FALSE]
  /\ run' = [run EXCEPT
               !.stack = Front(@),
               !.ret = IF Top.traversed_path = <<>>
                       THEN Ret(FALSE, Front(Top.path))
                       ELSE Ret(TRUE, Top.path \o
                              Top.traversed_path[SmallestIdx(Top.traversed_path)])]
  /\ UNCHANGED <<edge_storage, contains_cycles, cache_enabled,
                 average_path_len, cache, last, reported_cycle, added>>

\* trace after find has returned (lines 183-192), and what contains_cycles
\* does with the result when the call was its own (lines 217-220).
EndTrace ==
  /\ Running /\ run.stack = <<>> /\ run.ret.returned
  /\ cache' = IF run.ret.found /\ cache_enabled
              THEN MapPut(cache, merge_ids(run.from, run.to), run.ret.path)
              ELSE cache
  /\ IF run.op = "trace"
     THEN /\ last' = Call("trace", run.from, run.to, NoData,
                          IF run.ret.found THEN run.ret.path ELSE <<>>,
                          run.ret.found, <<>>)
          /\ run' = NoRun
          /\ UNCHANGED <<contains_cycles, reported_cycle>>
     ELSE IF run.ret.found
     THEN /\ contains_cycles' = TRUE
          /\ reported_cycle' = TRUE
          /\ last' = Call("contains_cycles", NoId, NoId, NoData, <<>>, TRUE, <<>>)
          /\ run' = NoRun
     ELSE /\ run' = [run EXCEPT !.idx = @ + 1, !.ret = NoRet]
          /\ UNCHANGED <<last, contains_cycles, reported_cycle>>
  /\ UNCHANGED <<node_storage, edge_storage, cache_enabled, average_path_len,
                 added>>

TracerIds == 0..MaxTracerId

\* build_from's argument for the nodes 0..k-1 and the edges pairs, in order.
TracerSource(k, pairs) ==
  [nodes |-> [i \in 1..k |-> i - 1],
   edges |-> [i \in 1..Len(pairs) |-> edge_s(pairs[i][1], pairs[i][2], "p")]]

\* A graph that build_from has just built; no query has been made yet.
InitTracer ==
  /\ \E k \in 1..(MaxTracerId + 1), n \in 0..MaxTracerEdges :
       \E pairs \in [1..n -> (0..(k - 1)) \X (0..(k - 1))] :
         LET r == build_from(NewGraph, TracerSource(k, pairs))
         IN /\ r.ok
            /\ node_storage = r.g.ns
            /\ edge_storage = r.g.es
            /\ added = r.g.added
  /\ contains_cycles = FALSE
  /\ cache_enabled \in BOOLEAN
  /\ average_path_len = 0
  /\ cache = EmptyMap
  /\ last = Call("graph_c", NoId, NoId, NoData, <<>>, TRUE, <<>>)
  /\ reported_cycle = FALSE
  /\ run = NoRun

\* The steps of a call that has begun.
Step ==
  \/ NextPair
  \/ FindEnter
  \/ FindCall
  \/ FindReturned
  \/ FindExit
  \/ EndTrace

NextTracer ==
  \/ \E from \in TracerIds, to \in TracerIds : BeginTrace(from, to)
  \/ BeginContainsCycles
  \/ Step

\* One trace or contains_cycles call on a built graph, step by step.
SpecTracer == InitTracer /\ [][NextTracer]_vars

\* A call that has begun goes on executing: graph_c runs in the caller's
\* thread and find has no statement that waits.
SpecTracerFair == SpecTracer /\ WF_vars(Step)

\* A graph built by build_from calls next to single insertions, and traced.
NextBuild ==
  \/ \E source \in Sources : BuildFrom(source)
  \/ \E id \in Ids : AddNode(id)
  \/ \E from \in Ids, to \in Ids, d \in EdgeData : AddEdge(from, to, d)
  \/ \E from \in Ids, to \in Ids : Trace(from, to)

SpecBuild == Init /\ [][NextBuild]_vars

\* ------------------------------------------------------------- the graph
\* What the graph is, read from the Store alone: the reference the claims
\* compare the calls' results with.
Nodes == DOMAIN node_storage

Succ(n) == Range(node_storage[n].out)

RECURSIVE Closure(_)
Closure(S) ==
  LET T == S \cup UNION {Succ(n) : n \in S}
  IN IF T = S THEN S ELSE Closure(T)

\* A directed path (of zero or more edges) leads from from to to.
Reachable(from, to) == to \in Closure({from})

RECURSIVE BfsDist(_, _, _, _)
\* The breadth-first distance to to, which is reachable from the frontier.
BfsDist(frontier, seen, to, d) ==
  IF to \in frontier THEN d
  ELSE BfsDist(UNION {Succ(n) : n \in frontier} \ (seen \cup frontier),
               seen \cup frontier, to, d + 1)

Dist(from, to) == BfsDist({from}, {}, to, 0)

\* Some stored edge node -> neighbor has a path from neighbor back to node.
HasCycle == \E n \in Nodes : \E m \in Succ(n) : Reachable(m, n)

\* Every consecutive pair of path is an edge of the graph.
IsWalk(path) ==
  \A i \in 1..(Len(path) - 1) : path[i] \in Nodes /\ path[i + 1] \in Succ(path[i])

\* The result of the Tracer run on the Store with no cache in between.
Uncached(from, to) ==
  IF from \in Nodes /\ to \in Nodes
  THEN LET r == find(node_storage, from, to, <<>>)
       IN [has |-> r.found, path |-> IF r.found THEN r.path ELSE <<>>]
  ELSE [has |-> FALSE, path |-> <<>>]

\* The last call was trace(from, to) on two nodes of the Store.
TracedNodes ==
  last.op = "trace" /\ last.from \in Nodes /\ last.to \in Nodes

\* ------------------------------------------------------------- claims

\* C1: whenever to is reachable from from, trace(from, to) returns a path that
\* starts at from, ends at to and has the breadth-first distance as hop count.
C1_TraceShortest ==
  (TracedNodes /\ Reachable(last.from, last.to)) =>
    /\ last.ok
    /\ last.path # <<>>
    /\ last.path[1] = last.from
    /\ last.path[Len(last.path)] = last.to
    /\ Len(last.path) - 1 = Dist(last.from, last.to)

\* C2: trace(from, to) returns absent exactly when from is not in the Store, or
\* to is not in the Store, or no directed path leads from from to to.
C2_TraceAbsentIff ==
  last.op = "trace" =>
    (~last.ok <=> \/ last.from \notin Nodes
                  \/ last.to \notin Nodes
                  \/ ~Reachable(last.from, last.to))

\* C3: cache transparency: after any sequence of calls, trace(from, to) returns
\* what the uncached Tracer returns on the current Store for that query.
C3_CacheTransparent ==
  last.op = "trace" =>
    /\ last.ok = Uncached(last.from, last.to).has
    /\ last.path = Uncached(last.from, last.to).path

\* C4: path validity: every consecutive pair of a path trace returns (from == to
\* included) has a stored edge, and load_edges on that path never fails.
C4_PathValid ==
  (last.op = "trace" /\ last.ok) =>
    /\ IsWalk(last.path)
    /\ load_edges(edge_storage, last.path).has

\* C5: with a self-loop B->B stored, trace(B, B) followed by load_edges on the
\* returned path succeeds with exactly one payload, that of B->B.
C5_SelfLoopEdge ==
  [][(/\ TracedNodes /\ last.ok
      /\ last.from = last.to
      /\ last.from \in Succ(last.from)
      /\ last'.op = "load_edges"
      /\ last'.path = last.path)
     => /\ last'.ok
        /\ last'.edges = <<edge_storage[merge_ids(last.from, last.from)]>>]_vars

\* C6: for every node x of the Store, trace(x, x) succeeds with the single-node
\* path [x], and load_edges on that path fails.
C6_TrivialPath ==
  (TracedNodes /\ last.from = last.to) =>
    /\ last.ok
    /\ last.path = <<last.from>>
    /\ ~load_edges(edge_storage, last.path).has

\* C7: contains_cycles() returns true if and only if the graph has a directed
\* cycle, whatever the cache setting and the traces made before.
C7_CyclesIff ==
  last.op = "contains_cycles" => (last.ok <=> HasCycle)

\* C8: cycle monotonicity: once contains_cycles() has returned true, every
\* later contains_cycles() call returns true.
C8_CyclesMonotone ==
  (last.op = "contains_cycles" /\ reported_cycle) => last.ok

\* C9: add_edge(from, to, data) returns false exactly when from is absent, to is
\* absent or the ordered pair (from, to) was already added; otherwise it returns
\* true, appends to to from's outgoing list and records data for (from, to).
C9_AddEdgeResult ==
  last.op = "add_edge" =>
    IF last.ok
    THEN /\ last.from \in Nodes /\ last.to \in Nodes
         /\ node_storage[last.from].out # <<>>
         /\ node_storage[last.from].out[Len(node_storage[last.from].out)] = last.to
         /\ last.to \notin Range(Front(node_storage[last.from].out))
         /\ merge_ids(last.from, last.to) \in DOMAIN edge_storage
         /\ edge_storage[merge_ids(last.from, last.to)] = last.data
    ELSE \/ last.from \notin Nodes
         \/ last.to \notin Nodes
         \/ last.to \in Succ(last.from)

\* C10: a failed insertion changes nothing: add_node of a present identifier
\* fails, add_edge with a missing endpoint or an already added ordered pair
\* fails, and the nodes, the outgoing lists, the payloads, the cache and the
\* memoized cycle flag are as before the call.
C10_FailedInsertion ==
  [][/\ (last'.op = "add_node" /\ last'.from \in Nodes) => ~last'.ok
     /\ (last'.op = "add_edge"
         /\ (\/ last'.from \notin Nodes
             \/ last'.to \notin Nodes
             \/ last'.to \in Succ(last'.from))) => ~last'.ok
     /\ (last'.op \in {"add_node", "add_edge"} /\ ~last'.ok) =>
          UNCHANGED <<node_storage, edge_storage, cache, contains_cycles>>]_vars

\* A duplicate add_edge with another payload has failed; the cached path and
\* the first payload are still there.
C10_Witness ==
  /\ last.op = "add_edge" /\ ~last.ok
  /\ last.from \in Nodes /\ last.to \in Nodes
  /\ last.to \in Succ(last.from)
  /\ edge_storage[merge_ids(last.from, last.to)] # last.data
  /\ DOMAIN cache # {}

\* Every consecutive ordered pair of path was added by a successful add_edge.
AllAdded(path) ==
  \A i \in 1..(Len(path) - 1) : <<path[i], path[i + 1]>> \in DOMAIN added

\* C11: for a path of at least two nodes whose consecutive ordered pairs all
\* have a stored edge, load_edges returns path.size() - 1 payloads, the i-th
\* being the data of the successful add_edge(path[i], path[i + 1], data).
C11_LoadEdgesPayloads ==
  (last.op = "load_edges" /\ Len(last.path) >= 2 /\ AllAdded(last.path)) =>
    /\ last.ok
    /\ Len(last.edges) = Len(last.path) - 1
    /\ \A i \in 1..(Len(last.path) - 1) :
         last.edges[i] = added[<<last.path[i], last.path[i + 1]>>]

\* load_edges has resolved a three-node path into two different payloads.
C11_Witness ==
  /\ last.op = "load_edges" /\ last.ok
  /\ Len(last.path) = 3 /\ AllAdded(last.path)
  /\ Len(last.edges) = 2 /\ last.edges[1] # last.edges[2]

\* C12: load_edges(path) reports failure, and no payload list, whenever path
\* has fewer than two nodes or some consecutive ordered pair of it has no edge
\* that was added for exactly that ordered pair.
C12_LoadEdgesFails ==
  (last.op = "load_edges" /\ (Len(last.path) < 2 \/ ~AllAdded(last.path))) =>
    (~last.ok /\ last.edges = <<>>)

\* C13: the cache holds no entry right after every successful add_node, every
\* successful add_edge, every toggle_cache and every clear_cache.
C13_CacheCleared ==
  (\/ last.op \in {"toggle_cache", "clear_cache"}
   \/ (last.op \in {"add_node", "add_edge"} /\ last.ok)) => DOMAIN cache = {}

\* A node has been added to a graph whose cache had held paths (the hint
\* optimize_trace took from them is still there); the cache is empty.
C13_Witness ==
  /\ last.op = "add_node" /\ last.ok
  /\ cache_enabled /\ average_path_len > 0
  /\ DOMAIN cache = {}

\* The calls that leave the cache as it is or add to it.
KeepsCache == {"trace", "load_edges", "contains_cycles", "optimize_trace"}

\* C17: optimize_trace returns false, and leaves the hint unchanged, exactly
\* when caching is disabled or the cache is empty, and true otherwise; with
\* caching enabled a successful trace leaves the cache non-empty, and it stays
\* so until the next mutation, toggle_cache or clear_cache.
C17_OptimizeResult ==
  [][/\ last'.op = "optimize_trace" =>
          /\ last'.ok = (cache_enabled /\ DOMAIN cache # {})
          /\ ~last'.ok => average_path_len' = average_path_len
     /\ (last'.op = "trace" /\ last'.ok /\ cache_enabled) => DOMAIN cache' # {}
     /\ (DOMAIN cache # {} /\ last'.op \in KeepsCache) => DOMAIN cache' # {}
     /\ (last'.op \in {"add_node", "add_edge"} /\ ~last'.ok) => cache' = cache]_vars

\* optimize_trace has returned false on an enabled, empty cache, and the hint
\* an earlier optimize_trace stored is still there.
C17_Witness ==
  /\ last.op = "optimize_trace" /\ ~last.ok
  /\ cache_enabled /\ DOMAIN cache = {}
  /\ average_path_len > 0

\* The calls build_from(source) is to make, in their order: one add_node per
\* element of source.nodes, then one add_edge per element of source.edges.
Items(source) ==
  [i \in 1..Len(source.nodes) |-> [node |-> source.nodes[i]]]
    \o [i \in 1..Len(source.edges) |-> [edge |-> source.edges[i]]]

\* One of these calls made on the graph g.
Apply(g, item) ==
  IF "node" \in DOMAIN item
  THEN add_node(g, item.node)
  ELSE add_edge(g, item.edge.from, item.edge.to, item.edge.data)

RECURSIVE After(_, _, _)
\* The graph after the first j of these calls were made on g.
After(g, items, j) ==
  IF j = 0 THEN g ELSE Apply(After(g, items, j - 1), items[j]).g

\* How many of these calls precede the first one that fails on g.
Preceding(g, items) ==
  CHOOSE k \in 0..Len(items) :
    /\ \A j \in 1..k : Apply(After(g, items, j - 1), items[j]).ok
    /\ k < Len(items) => ~Apply(After(g, items, k), items[k + 1]).ok

\* C14: build_from(source) makes the add_node calls in list order, then the
\* add_edge calls in list order, up to the first call that fails; it leaves
\* exactly the insertions of the calls before that one, and returns true iff
\* no call failed.  (add_node and add_edge are the calls of C9 and C10.)
C14_BuildFrom ==
  [][/\ last'.op = "build_from" =>
          LET items == Items(last'.source)
              k == Preceding(Graph, items)
          IN /\ last'.ok = (k = Len(items))
             /\ Graph' = After(Graph, items, k)
     /\ last'.op = "add_node" =>
          /\ last'.ok = add_node(Graph, last'.from).ok
          /\ Graph' = add_node(Graph, last'.from).g
     /\ last'.op = "add_edge" =>
          /\ last'.ok = add_edge(Graph, last'.from, last'.to, last'.data).ok
          /\ Graph' = add_edge(Graph, last'.from, last'.to, last'.data).g]_vars

\* build_from has returned false on the edge list with the repeated edge
\* 1->2: the edge before the repetition is stored, the edge after it is not.
C14_Witness ==
  /\ last.op = "build_from" /\ ~last.ok
  /\ Len(last.source.edges) = 3
  /\ <<1, 2>> \in DOMAIN added /\ added[<<1, 2>>] = "p"
  /\ <<2, 1>> \notin DOMAIN added
  /\ node_storage[1].out = <<2>>

Ceiling(a, b) == (a + b - 1) \div b

\* C16: when optimize_trace succeeds, the hint it stores is the ceiling of the
\* sum of the node counts of the cached paths divided by the number of cache
\* entries.
C16_HintIsCeiling ==
  (last.op = "optimize_trace" /\ last.ok) =>
    average_path_len =
      Ceiling(SumLen(cache, DOMAIN cache), Cardinality(DOMAIN cache))

\* The nodes whose marker is set.
Marked == {n \in DOMAIN node_storage : node_storage[n].marked}

\* The nodes of the active invocations of find that have begun to explore
\* their neighbours.
Exploring ==
  IF Running
  THEN {run.stack[j].node :
          j \in {h \in 1..Len(run.stack) : run.stack[h].pc \in {"loop", "wait"}}}
  ELSE {}

\* C18: visiting-marker discipline: at every point of a trace the marked
\* nodes are exactly the nodes on the active search stack that have begun
\* exploring their neighbours, each of them once on the stack, and when the
\* call has returned no node is marked.
C18_MarkerDiscipline ==
  /\ Marked = Exploring
  /\ Running =>
       \A j, h \in 1..Len(run.stack) :
         (j # h /\ run.stack[j].pc # "enter" /\ run.stack[h].pc # "enter")
           => run.stack[j].node # run.stack[h].node
  /\ ~Running => Marked = {}

\* A neighbour call has returned a sub-path to an invocation two deep or
\* more; its nodes were unmarked, the nodes on the stack are still marked.
C18_Witness ==
  /\ Running /\ Len(run.stack) >= 2
  /\ Top.pc = "loop" /\ Top.traversed_path # <<>>
  /\ Len(Top.traversed_path[1]) >= 2
  /\ Cardinality(Marked) = Len(run.stack)

\* C19: trace and contains_cycles terminate on every graph, cycles and
\* self-loops included, and no more invocations of find are active at a time
\* than the Store has nodes.
C19_Terminates ==
  /\ [](Running => Len(run.stack) <= Cardinality(DOMAIN node_storage))
  /\ (Running ~> ~Running)

\* On a graph of MaxTracerId + 1 nodes with a cycle through all of them, as
\* many invocations as nodes are active and the innermost is on a marked node.
C19_Witness ==
  /\ Running
  /\ Cardinality(DOMAIN node_storage) = MaxTracerId + 1
  /\ Len(run.stack) = Cardinality(DOMAIN node_storage)
  /\ Top.pc = "enter" /\ node_storage[Top.node].marked

\* The neighbour of n, by its index in n's outgoing list, lies on a shortest
\* path from n to to.
OnShortest(n, j, to) ==
  LET m == node_storage[n].out[j]
  IN Reachable(m, to) /\ Dist(m, to) = Dist(n, to) - 1

\* Each node of path is followed by the first neighbour, in the order of the
\* node's outgoing list, that lies on a shortest path to to.
FirstShortest(path, to) ==
  \A i \in 1..(Len(path) - 1) :
    /\ Reachable(path[i], to)
    /\ \E j \in 1..Len(node_storage[path[i]].out) :
         /\ node_storage[path[i]].out[j] = path[i + 1]
         /\ OnShortest(path[i], j, to)
         /\ \A h \in 1..(j - 1) : ~OnShortest(path[i], h, to)

Returned(call) == <<call.ok, call.path>>

\* C21: when from or to is absent from the Store, trace reports an outcome
\* that the caller can tell from the outcome it reports when both nodes exist
\* and to is unreachable from from: the values returned by two such calls,
\* one made after the other, differ.
C21_UnknownNodeDistinct ==
  [][(/\ last.op = "trace" /\ last'.op = "trace"
      /\ (last.from \notin Nodes \/ last.to \notin Nodes)
      /\ last'.from \in Nodes /\ last'.to \in Nodes
      /\ ~Reachable(last'.from, last'.to)
      /\ ~last'.ok)
     => Returned(last') # Returned(last)]_vars

\* C21 as amended: when from or to is absent from the Store, trace returns
\* the empty optional, whatever the cache holds, and leaves the cache as it
\* is; every trace that returns no path returns that same value.
C21_UnknownNodeAbsent ==
  [][last'.op = "trace" =>
       /\ (last'.from \notin Nodes \/ last'.to \notin Nodes) =>
            (Returned(last') = <<FALSE, <<>> >> /\ cache' = cache)
       /\ ~last'.ok => Returned(last') = <<FALSE, <<>> >>]_vars

\* trace has returned the empty optional for a pair whose target is not in
\* the Store although the cache holds a path under the key of the pair.
C21_Witness ==
  /\ last.op = "trace" /\ ~last.ok
  /\ last.from \in Nodes /\ last.to \notin Nodes
  /\ cache_enabled /\ merge_ids(last.from, last.to) \in DOMAIN cache

\* The calls that only query the graph.
Queries == {"trace", "load_edges", "contains_cycles", "optimize_trace"}

\* C22: trace, load_edges, contains_cycles and optimize_trace never change
\* the node set, an outgoing list or an edge payload (nor leave a marker
\* set); trace with an identifier that is not in the Store returns absent
\* and creates no node, and a trace that finds no path leaves the cache as
\* it was.
C22_QueriesFrame ==
  [][last'.op \in Queries =>
       /\ node_storage' = node_storage
       /\ edge_storage' = edge_storage
       /\ added' = added
       /\ (last'.op = "trace"
           /\ (last'.from \notin Nodes \/ last'.to \notin Nodes)) => ~last'.ok
       /\ (last'.op = "trace" /\ ~last'.ok) => cache' = cache]_vars

\* trace has returned absent for a source that is not in the Store and a
\* target that is, on a graph with an edge and a cached path.
C22_Witness ==
  /\ last.op = "trace" /\ ~last.ok
  /\ last.from \notin Nodes /\ last.to \in Nodes
  /\ DOMAIN edge_storage # {} /\ DOMAIN cache # {}

====
